---- MODULE Spec2Model ----
(***************************************************************************)
(* Recovery registry contract (contracts/recovery_registry/src/main.rs).   *)
(*                                                                         *)
(* The contract keeps, per account, three named storage slots (guardian   *)
(* list, threshold, initialized flag).  The persisted state is the         *)
(* contract's named-key table and the values stored under the URefs it     *)
(* names.  Every entry point runs as one host call: its effects are        *)
(* committed when it returns and discarded when it reverts.                *)
(***************************************************************************)
EXTENDS Integers, Sequences, FiniteSets, TLC

\* ------------------------------------------------------------------------
\* Bounds of the model
\* ------------------------------------------------------------------------

\* longest guardian list a caller passes
MaxLen == 2

\* ------------------------------------------------------------------------
\* Value universes
\* ------------------------------------------------------------------------

\* account hashes (one byte of the 32 is enough to tell the accounts apart)
AccountHashes == {10, 171}

\* identities a call can come from: runtime::get_caller() is an account hash
Callers == AccountHashes

\* public keys a caller can pass
PublicKeys == {"K1", "K2", "K3"}

\* thresholds a caller passes: 0, every valid value, and one past the longest list
Thresholds == 0 .. (MaxLen + 1)

\* guardian lists a caller passes: every list of at most MaxLen keys
GuardianLists == UNION {[1 .. n -> PublicKeys] : n \in 0 .. MaxLen}

\* guardian_types::constants::MIN_GUARDIANS
MIN_GUARDIANS == 2

\* guardian_types::constants::storage_keys
GUARDIANS_PREFIX == "guardians_"

THRESHOLD_PREFIX == "threshold_"

INITIALIZED_PREFIX == "initialized_"

\* ------------------------------------------------------------------------
\* Key generation helpers
\* ------------------------------------------------------------------------

HexDigits == <<"0", "1", "2", "3", "4", "5", "6", "7",
               "8", "9", "a", "b", "c", "d", "e", "f">>

\* Display of an AccountHash: lower-case base16 of its bytes
AccountHashText(account_hash) ==
    HexDigits[(account_hash \div 16) + 1] \o HexDigits[(account_hash % 16) + 1]

\* variant: the account left out of the name
guardians_key_shared(account_hash) == GUARDIANS_PREFIX

guardians_key(account_hash) == GUARDIANS_PREFIX \o AccountHashText(account_hash)

threshold_key(account_hash) == THRESHOLD_PREFIX \o AccountHashText(account_hash)

initialized_key(account_hash) == INITIALIZED_PREFIX \o AccountHashText(account_hash)

\* ------------------------------------------------------------------------
\* Stored values (CLValue): a type tag and the payload of that type
\* ------------------------------------------------------------------------

UnitValue == [ty |-> "Unit", b |-> FALSE, n |-> 0, l |-> <<>>]

BoolValue(x) == [ty |-> "Bool", b |-> x, n |-> 0, l |-> <<>>]

U32Value(x) == [ty |-> "U32", b |-> FALSE, n |-> x, l |-> <<>>]

ListValue(x) == [ty |-> "List", b |-> FALSE, n |-> 0, l |-> x]

\* Option<T> as a sequence of length 0 (None) or 1 (Some)
None == <<>>

Some(x) == <<x>>

\* ------------------------------------------------------------------------
\* Program state
\* ------------------------------------------------------------------------

VARIABLES
    named_keys,     \* the contract's named keys: name -> URef
    global_state,   \* value stored under each URef; URef u is index u
    call,           \* the last entry-point call: arguments and result
    first_init,     \* history: per account, arguments of its first successful initialize
    init_count      \* history: per account, number of successful initializes (capped)

vars == <<named_keys, global_state, call, first_init, init_count>>

\* the persisted state as one value
Store == [named_keys |-> named_keys, global_state |-> global_state]

StoreNext == [named_keys |-> named_keys', global_state |-> global_state']

\* ------------------------------------------------------------------------
\* Host storage API as the contract uses it
\* ------------------------------------------------------------------------

EmptyStore == [named_keys |-> [x \in {} |-> 0], global_state |-> <<>>]

\* runtime::get_key: the URef registered under a name, if any
get_key(st, key_name) ==
    IF key_name \in DOMAIN st.named_keys THEN Some(st.named_keys[key_name]) ELSE None

\* storage::new_uref(()): allocates the next URef holding the unit value
new_uref(st) ==
    [st   |-> [st EXCEPT !.global_state = Append(@, UnitValue)],
     uref |-> Len(st.global_state) + 1]

\* runtime::put_key: registers (or re-registers) a name
put_key(st, key_name, uref) ==
    [st EXCEPT !.named_keys =
        [k \in (DOMAIN @) \cup {key_name} |-> IF k = key_name THEN uref ELSE @[k]]]

\* storage::write: replaces the value under a URef
storage_write(st, uref, value) ==
    [st EXCEPT !.global_state[uref] = value]

\* storage::read::<T>: Ok(None) when nothing is stored, Err when the stored
\* bytes do not decode as T, Ok(Some(v)) otherwise
storage_read(st, uref, ty) ==
    IF uref \notin DOMAIN st.global_state
    THEN [err |-> FALSE, opt |-> None]
    ELSE IF st.global_state[uref].ty = ty
         THEN [err |-> FALSE, opt |-> Some(st.global_state[uref])]
         ELSE [err |-> TRUE, opt |-> None]

\* ------------------------------------------------------------------------
\* Helper functions
\* ------------------------------------------------------------------------

\* variant: a new slot is allocated and registered on every call
get_or_create_uref_always_new(st, key_name) ==
    LET fresh == new_uref(st) IN
    [st |-> put_key(fresh.st, key_name, fresh.uref), uref |-> fresh.uref]

\* Get existing URef or create a new one for the given key
get_or_create_uref(st, key_name) ==
    LET found == get_key(st, key_name) IN
    IF found # None
    THEN [st |-> st, uref |-> found[1]]
    ELSE LET fresh == new_uref(st) IN
         [st |-> put_key(fresh.st, key_name, fresh.uref), uref |-> fresh.uref]

\* Read a value from storage by key name: storage::read(uref).ok().flatten()
read_from_storage(st, key_name, ty) ==
    LET found == get_key(st, key_name) IN
    IF found # None
    THEN LET r == storage_read(st, found[1], ty) IN
         IF r.err THEN None ELSE r.opt
    ELSE None

\* ------------------------------------------------------------------------
\* Entry points, as functions from the store before the call to the result
\* of the call and the store at the point where the call ended
\* ------------------------------------------------------------------------

NoRet == UnitValue

Revert(st, error) == [outcome |-> error, ret |-> NoRet, st |-> st]

Return(st, value) == [outcome |-> "Ok", ret |-> value, st |-> st]

\* variant: the membership test of the scan never matches
seen_contains_never(seen, guardian) == FALSE

\* seen.iter().any(|&g| g == guardian)
seen_contains(seen, guardian) == \E i \in 1 .. Len(seen) : seen[i] = guardian

\* the duplicate scan: TRUE when some guardian equals one pushed before it
RECURSIVE duplicate_scan(_, _, _)
duplicate_scan(guardians, i, seen) ==
    IF i > Len(guardians) THEN FALSE
    ELSE IF seen_contains(seen, guardians[i]) THEN TRUE
    ELSE duplicate_scan(guardians, i + 1, Append(seen, guardians[i]))

\* guardians.len() < MIN_GUARDIANS
too_few_guardians(guardians) == Len(guardians) < MIN_GUARDIANS

\* variant: the two threshold conditions joined with && instead of ||
bad_threshold_and(guardians, threshold) ==
    threshold = 0 /\ threshold > Len(guardians)

\* variant: >= instead of >
bad_threshold_ge(guardians, threshold) ==
    threshold = 0 \/ threshold >= Len(guardians)

\* threshold == 0 || threshold > guardians.len() as u32
\* (the target is wasm32, where usize is 32 bits wide: the cast keeps the length)
bad_threshold(guardians, threshold) ==
    threshold = 0 \/ threshold > Len(guardians)

\* variant: the flag is read as its own default
read_initialized_default(st, init_uref) == FALSE

\* storage::read(init_uref).unwrap_or_default().unwrap_or(false)
read_initialized(st, init_uref) ==
    LET r == storage_read(st, init_uref, "Bool") IN
    IF r.err \/ r.opt = None THEN FALSE ELSE r.opt[1].b

\* variant: the initialized flag written before the list and the threshold
store_record_steps_flag_first(st, init_uref, account_hash, guardians, threshold) ==
    LET s0 == storage_write(st, init_uref, BoolValue(TRUE))
        g  == get_or_create_uref(s0, guardians_key(account_hash))
        s1 == storage_write(g.st, g.uref, ListValue(guardians))
        t  == get_or_create_uref(s1, threshold_key(account_hash))
        s2 == storage_write(t.st, t.uref, U32Value(threshold))
    IN  <<s0, g.st, s1, t.st, s2>>

\* the store after each storage call of a successful initialization, in the
\* order of the code: guardians slot, guardians write, threshold slot,
\* threshold write, flag write
store_record_steps(st, init_uref, account_hash, guardians, threshold) ==
    LET g  == get_or_create_uref(st, guardians_key(account_hash))
        s1 == storage_write(g.st, g.uref, ListValue(guardians))
        t  == get_or_create_uref(s1, threshold_key(account_hash))
        s2 == storage_write(t.st, t.uref, U32Value(threshold))
        s3 == storage_write(s2, init_uref, BoolValue(TRUE))
    IN  <<g.st, s1, t.st, s2, s3>>

\* variant: the guardian list and the threshold written under each other's name
store_record_swapped(st, init_uref, account_hash, guardians, threshold) ==
    LET g  == get_or_create_uref(st, threshold_key(account_hash))
        s1 == storage_write(g.st, g.uref, ListValue(guardians))
        t  == get_or_create_uref(s1, guardians_key(account_hash))
        s2 == storage_write(t.st, t.uref, U32Value(threshold))
    IN  storage_write(s2, init_uref, BoolValue(TRUE))

\* the three writes of a successful initialization
store_record(st, init_uref, account_hash, guardians, threshold) ==
    LET steps == store_record_steps(st, init_uref, account_hash, guardians, threshold)
    IN  steps[Len(steps)]

\* variant: no check of the initialized flag
initialize_guardians_no_lockout(st, account_hash, guardians, threshold) ==
    IF too_few_guardians(guardians) THEN Revert(st, "InvalidGuardianSetup")
    ELSE IF bad_threshold(guardians, threshold) THEN Revert(st, "InvalidThreshold")
    ELSE IF duplicate_scan(guardians, 1, <<>>) THEN Revert(st, "InvalidGuardianSetup")
    ELSE LET init == get_or_create_uref(st, initialized_key(account_hash)) IN
         Return(store_record(init.st, init.uref, account_hash, guardians, threshold), NoRet)

\* variant: the initialized flag checked before the arguments
initialize_guardians_lockout_first(st, account_hash, guardians, threshold) ==
    LET init == get_or_create_uref(st, initialized_key(account_hash)) IN
    IF read_initialized(init.st, init.uref) THEN Revert(init.st, "AlreadyInitialized")
    ELSE IF too_few_guardians(guardians) THEN Revert(init.st, "InvalidGuardianSetup")
    ELSE IF bad_threshold(guardians, threshold) THEN Revert(init.st, "InvalidThreshold")
    ELSE IF duplicate_scan(guardians, 1, <<>>) THEN Revert(init.st, "InvalidGuardianSetup")
    ELSE Return(store_record(init.st, init.uref, account_hash, guardians, threshold), NoRet)

initialize_guardians(st, account_hash, guardians, threshold) ==
    IF too_few_guardians(guardians) THEN Revert(st, "InvalidGuardianSetup")
    ELSE IF bad_threshold(guardians, threshold) THEN Revert(st, "InvalidThreshold")
    ELSE IF duplicate_scan(guardians, 1, <<>>) THEN Revert(st, "InvalidGuardianSetup")
    ELSE LET init == get_or_create_uref(st, initialized_key(account_hash)) IN
         IF read_initialized(init.st, init.uref)
         THEN Revert(init.st, "AlreadyInitialized")
         ELSE Return(store_record(init.st, init.uref, account_hash, guardians, threshold),
                     NoRet)

\* variant: only the account itself may set up its guardians
initialize_guardians_by_owner_only(caller, st, account_hash, guardians, threshold) ==
    IF caller # account_hash THEN Revert(st, "InvalidGuardianSetup")
    ELSE initialize_guardians(st, account_hash, guardians, threshold)

\* the entry point as run for a caller: the arguments are the three named
\* arguments, and runtime::get_caller() is never read
initialize_guardians_by(caller, st, account_hash, guardians, threshold) ==
    initialize_guardians(st, account_hash, guardians, threshold)

\* variant: a missing list read as the empty list instead of a revert
get_guardians_default(st, account_hash) ==
    LET guardians == read_from_storage(st, guardians_key(account_hash), "List") IN
    IF guardians = None THEN Return(st, ListValue(<<>>))
    ELSE Return(st, ListValue(guardians[1].l))

get_guardians(st, account_hash) ==
    LET guardians == read_from_storage(st, guardians_key(account_hash), "List") IN
    IF guardians = None THEN Revert(st, "AccountNotFound")
    ELSE Return(st, ListValue(guardians[1].l))

get_threshold(st, account_hash) ==
    LET threshold == read_from_storage(st, threshold_key(account_hash), "U32") IN
    IF threshold = None THEN Revert(st, "AccountNotFound")
    ELSE Return(st, U32Value(threshold[1].n))

\* variant: only the first guardian is compared
is_guardian_first_only(st, account_hash, public_key) ==
    LET guardians == read_from_storage(st, guardians_key(account_hash), "List") IN
    IF guardians = None THEN Return(st, BoolValue(FALSE))
    ELSE Return(st, BoolValue(Len(guardians[1].l) > 0 /\ guardians[1].l[1] = public_key))

is_guardian(st, account_hash, public_key) ==
    LET guardians == read_from_storage(st, guardians_key(account_hash), "List") IN
    IF guardians = None THEN Return(st, BoolValue(FALSE))
    ELSE Return(st, BoolValue(\E i \in 1 .. Len(guardians[1].l) :
                                  guardians[1].l[i] = public_key))

\* variant: the flag slot looked up with get_or_create_uref, as initialize does
has_guardians_creating(st, account_hash) ==
    LET slot == get_or_create_uref(st, initialized_key(account_hash))
        r    == storage_read(slot.st, slot.uref, "Bool")
    IN  Return(slot.st, BoolValue(IF r.err \/ r.opt = None THEN FALSE ELSE r.opt[1].b))

has_guardians(st, account_hash) ==
    LET flag == read_from_storage(st, initialized_key(account_hash), "Bool") IN
    Return(st, BoolValue(IF flag = None THEN FALSE ELSE flag[1].b))

\* the host commits the effects of a call that returns and discards those of
\* a call that reverts
Commit(before, result) ==
    IF result.outcome = "Ok" THEN result.st ELSE before

\* ------------------------------------------------------------------------
\* Actions.  The host runs the calls one at a time: it runs an entry point to
\* completion, commits or discards its effects, and hands the result to the
\* caller before it starts the next call.
\* ------------------------------------------------------------------------

NoArgs == [account |-> None, guardians |-> <<>>, threshold |-> 0, public_key |-> None]

CallRecord(op, a, result) ==
    [op |-> op, args |-> a, outcome |-> result.outcome, ret |-> result.ret]

\* no call has run yet, or the result of the last one has been handed over
NoCall == [op |-> "none", args |-> NoArgs, outcome |-> "Ok", ret |-> NoRet]

\* cap of the success counter kept as history
CountCap == 2

Init ==
    /\ named_keys = EmptyStore.named_keys
    /\ global_state = EmptyStore.global_state
    /\ call = NoCall
    /\ first_init = [a \in AccountHashes |-> None]
    /\ init_count = [a \in AccountHashes |-> 0]

InitializeGuardians ==
    /\ call = NoCall
    /\ \E caller \in Callers, account_hash \in AccountHashes,
          guardians \in GuardianLists, threshold \in Thresholds :
        LET result == initialize_guardians_by(caller, Store, account_hash, guardians,
                                              threshold)
            after  == Commit(Store, result)
            ok     == result.outcome = "Ok"
        IN  /\ named_keys' = after.named_keys
            /\ global_state' = after.global_state
            /\ call' = CallRecord("initialize_guardians",
                                  [account |-> Some(account_hash), guardians |-> guardians,
                                   threshold |-> threshold, public_key |-> None],
                                  result)
            /\ first_init' =
                   IF ok /\ first_init[account_hash] = None
                   THEN [first_init EXCEPT ![account_hash] =
                            Some([guardians |-> guardians, threshold |-> threshold])]
                   ELSE first_init
            /\ init_count' =
                   IF ok /\ init_count[account_hash] < CountCap
                   THEN [init_count EXCEPT ![account_hash] = @ + 1]
                   ELSE init_count

Query(op, a, result) ==
    LET after == Commit(Store, result) IN
    /\ call = NoCall
    /\ named_keys' = after.named_keys
    /\ global_state' = after.global_state
    /\ call' = CallRecord(op, a, result)
    /\ UNCHANGED <<first_init, init_count>>

GetGuardians ==
    \E account_hash \in AccountHashes :
        Query("get_guardians", [NoArgs EXCEPT !.account = Some(account_hash)],
              get_guardians(Store, account_hash))

GetThreshold ==
    \E account_hash \in AccountHashes :
        Query("get_threshold", [NoArgs EXCEPT !.account = Some(account_hash)],
              get_threshold(Store, account_hash))

IsGuardian ==
    \E account_hash \in AccountHashes, public_key \in PublicKeys :
        Query("is_guardian",
              [NoArgs EXCEPT !.account = Some(account_hash), !.public_key = Some(public_key)],
              is_guardian(Store, account_hash, public_key))

HasGuardians ==
    \E account_hash \in AccountHashes :
        Query("has_guardians", [NoArgs EXCEPT !.account = Some(account_hash)],
              has_guardians(Store, account_hash))

\* Default call entry point: a no-op
Call ==
    Query("call", NoArgs, Return(Store, NoRet))

\* the caller takes the result of the finished call
TakeResult ==
    /\ call # NoCall
    /\ call' = NoCall
    /\ UNCHANGED <<named_keys, global_state, first_init, init_count>>

Next ==
    \/ InitializeGuardians
    \/ GetGuardians
    \/ GetThreshold
    \/ IsGuardian
    \/ HasGuardians
    \/ Call
    \/ TakeResult

Spec == Init /\ [][Next]_vars

\* ------------------------------------------------------------------------
\* Views of the state in which the properties are stated
\* ------------------------------------------------------------------------

\* the value held by the slot registered under a name, if there is one
SlotOf(st, key_name) ==
    IF key_name \in DOMAIN st.named_keys
    THEN IF st.named_keys[key_name] \in DOMAIN st.global_state
         THEN Some(st.global_state[st.named_keys[key_name]])
         ELSE None
    ELSE None

\* the initialized flag of an account is true
FlagSet(st, a) ==
    LET slot == SlotOf(st, initialized_key(a)) IN
    slot # None /\ slot[1].ty = "Bool" /\ slot[1].b

\* a key occurs at two positions of a list
HasRepeat(g) == \E i, j \in 1 .. Len(g) : i < j /\ g[i] = g[j]

\* the outcome the four ordered checks prescribe
ExpectedOutcome(initialized, g, t) ==
    IF Len(g) < 2 THEN "InvalidGuardianSetup"
    ELSE IF t = 0 \/ t > Len(g) THEN "InvalidThreshold"
    ELSE IF HasRepeat(g) THEN "InvalidGuardianSetup"
    ELSE IF initialized THEN "AlreadyInitialized"
    ELSE "Ok"

\* the last call was op on account a
CalledOn(c, op, a) == c.op = op /\ c.args.account = Some(a)

\* what a query answers in a store: its outcome and returned value
Answer(result) == [outcome |-> result.outcome, ret |-> result.ret]

Returns(value) == [outcome |-> "Ok", ret |-> value]

Fails(error) == [outcome |-> error, ret |-> NoRet]

\* ------------------------------------------------------------------------
\* Properties
\* ------------------------------------------------------------------------

\* C1: once initialize_guardians(A, G, T) has succeeded, in every later state
\* get_guardians(A) returns exactly G and get_threshold(A) returns exactly T.
C1_RecordFrozen ==
    \A a \in AccountHashes :
        first_init[a] # None =>
            /\ Answer(get_guardians(Store, a)) = Returns(ListValue(first_init[a][1].guardians))
            /\ Answer(get_threshold(Store, a)) = Returns(U32Value(first_init[a][1].threshold))

\* a second, otherwise valid, initialize with other arguments was tried on an
\* initialized account and the first record is still there
C1_Witness ==
    \E a \in AccountHashes :
        /\ first_init[a] # None
        /\ CalledOn(call, "initialize_guardians", a)
        /\ call.outcome = "AlreadyInitialized"
        /\ call.args.guardians # first_init[a][1].guardians
        /\ call.args.threshold # first_init[a][1].threshold

\* C2 as stated: after a successful initialize on A, every later
\* initialize_guardians(A, G', T') fails with AlreadyInitialized, whatever G', T'.
C2_AlwaysAlreadyInitialized ==
    [][\A a \in AccountHashes :
          (first_init[a] # None /\ CalledOn(call', "initialize_guardians", a))
              => call'.outcome = "AlreadyInitialized"]_vars

\* C2 amended: after a successful initialize on A, every later
\* initialize_guardians(A, G', T') fails: with AlreadyInitialized when G', T'
\* pass the three argument checks, and with the error of the first failing
\* argument check otherwise.
C2_LaterInitializeFails ==
    [][\A a \in AccountHashes :
          (first_init[a] # None /\ CalledOn(call', "initialize_guardians", a))
              => /\ call'.outcome # "Ok"
                 /\ call'.outcome =
                        IF Len(call'.args.guardians) < 2 THEN "InvalidGuardianSetup"
                        ELSE IF call'.args.threshold = 0
                                \/ call'.args.threshold > Len(call'.args.guardians)
                             THEN "InvalidThreshold"
                        ELSE IF HasRepeat(call'.args.guardians) THEN "InvalidGuardianSetup"
                        ELSE "AlreadyInitialized"]_vars

\* on an initialized account a later call with a list shorter than 2 was refused
C2_Witness ==
    \E a \in AccountHashes :
        /\ first_init[a] # None
        /\ CalledOn(call, "initialize_guardians", a)
        /\ Len(call.args.guardians) < 2
        /\ call.outcome = "InvalidGuardianSetup"

\* C3: whenever the initialized flag of A is true, the guardians slot and the
\* threshold slot of A hold a value, the list has at least 2 keys and no
\* repeated key, and the threshold t satisfies 1 <= t <= len(guardians).
C3_RecordWellFormed ==
    \A a \in AccountHashes :
        FlagSet(Store, a) =>
            LET g == SlotOf(Store, guardians_key(a))
                t == SlotOf(Store, threshold_key(a))
            IN  /\ g # None /\ g[1].ty = "List"
                /\ t # None /\ t[1].ty = "U32"
                /\ Len(g[1].l) >= 2
                /\ ~HasRepeat(g[1].l)
                /\ 1 <= t[1].n /\ t[1].n <= Len(g[1].l)

\* both accounts initialized, one with the threshold at its upper limit
C3_Witness ==
    /\ \A a \in AccountHashes : FlagSet(Store, a)
    /\ \E a \in AccountHashes :
           SlotOf(Store, threshold_key(a))[1].n = Len(SlotOf(Store, guardians_key(a))[1].l)

\* C4: once has_guardians(A) is true it stays true, and an initialize on A
\* succeeds only when none has succeeded on A before.
C4_InitializedMonotonic ==
    [][\A a \in AccountHashes :
          /\ has_guardians(Store, a).ret.b => has_guardians(StoreNext, a).ret.b
          /\ (CalledOn(call', "initialize_guardians", a) /\ call'.outcome = "Ok")
                 => (init_count[a] = 0 /\ ~has_guardians(Store, a).ret.b)]_vars

\* every account is initialized and has_guardians has just answered true for one
C4_Witness ==
    \E a \in AccountHashes :
        /\ init_count[a] = 1
        /\ CalledOn(call, "has_guardians", a)
        /\ call.ret = BoolValue(TRUE)
        /\ \A b \in AccountHashes : init_count[b] = 1

\* C5: the outcome of initialize_guardians is that of the ordered checks,
\* first failing check first: InvalidGuardianSetup if len(G) < 2, else
\* InvalidThreshold if T = 0 or T > len(G), else InvalidGuardianSetup if G
\* repeats a key, else AlreadyInitialized if the flag of the account is true,
\* else success.
C5_OrderedChecks ==
    [][\A a \in AccountHashes :
          CalledOn(call', "initialize_guardians", a)
              => call'.outcome =
                     ExpectedOutcome(FlagSet(Store, a), call'.args.guardians,
                                     call'.args.threshold)]_vars

\* a list shorter than 2 with a threshold that fails too, on an initialized
\* account: three checks fail and the first one is reported
C5_Witness ==
    \E a \in AccountHashes :
        /\ FlagSet(Store, a)
        /\ CalledOn(call, "initialize_guardians", a)
        /\ Len(call.args.guardians) = 1
        /\ call.args.threshold = 0
        /\ call.outcome = "InvalidGuardianSetup"

\* C6 as stated: for every list of length N >= 2 the call succeeds iff
\* 1 <= T <= N, and fails with InvalidThreshold for T = 0 and T = N + 1.
C6_SucceedsIffThresholdInRange ==
    \A a \in AccountHashes :
        (CalledOn(call, "initialize_guardians", a) /\ Len(call.args.guardians) >= 2)
            => LET n == Len(call.args.guardians)
                   t == call.args.threshold
               IN  /\ (call.outcome = "Ok") <=> (1 <= t /\ t <= n)
                   /\ (t = 0 \/ t = n + 1) => call.outcome = "InvalidThreshold"

\* C6 amended: for every list of length N >= 2 the call fails with
\* InvalidThreshold for T = 0 and for T = N + 1; when the list repeats no key
\* and the account is not yet initialized, it succeeds iff 1 <= T <= N.
C6_ThresholdBounds ==
    [][\A a \in AccountHashes :
          (CalledOn(call', "initialize_guardians", a) /\ Len(call'.args.guardians) >= 2)
              => LET n == Len(call'.args.guardians)
                     t == call'.args.threshold
                 IN  /\ (t = 0 \/ t = n + 1) => call'.outcome = "InvalidThreshold"
                     /\ (~HasRepeat(call'.args.guardians) /\ ~FlagSet(Store, a))
                            => ((call'.outcome = "Ok") <=> (1 <= t /\ t <= n))]_vars

\* a list of the longest length N stored with T = N
C6_Witness ==
    \E a \in AccountHashes :
        /\ CalledOn(call, "initialize_guardians", a)
        /\ Len(call.args.guardians) = MaxLen
        /\ call.args.threshold = MaxLen
        /\ call.outcome = "Ok"

\* C7: a call whose list has length N >= 2 and repeats a key, with
\* 1 <= T <= N, fails with InvalidGuardianSetup and writes nothing, whether
\* or not the account is initialized.
C7_DuplicateRejected ==
    [][\A a \in AccountHashes :
          ( /\ CalledOn(call', "initialize_guardians", a)
            /\ Len(call'.args.guardians) >= 2
            /\ HasRepeat(call'.args.guardians)
            /\ 1 <= call'.args.threshold
            /\ call'.args.threshold <= Len(call'.args.guardians) )
              => /\ call'.outcome = "InvalidGuardianSetup"
                 /\ StoreNext = Store]_vars

\* a repeating list with a valid threshold was refused on an initialized
\* account while the other account is still uninitialized
C7_Witness ==
    \E a, b \in AccountHashes :
        /\ FlagSet(Store, a) /\ ~FlagSet(Store, b)
        /\ CalledOn(call, "initialize_guardians", a)
        /\ HasRepeat(call.args.guardians)
        /\ call.args.threshold = 1
        /\ call.outcome = "InvalidGuardianSetup"

\* C8: after a successful initialize_guardians(A, G, T), get_guardians(A)
\* returns G in the same order, get_threshold(A) returns T and
\* has_guardians(A) returns true.
C8_ReadBack ==
    \A a \in AccountHashes :
        (CalledOn(call, "initialize_guardians", a) /\ call.outcome = "Ok")
            => /\ Answer(get_guardians(Store, a)) = Returns(ListValue(call.args.guardians))
               /\ Answer(get_threshold(Store, a)) = Returns(U32Value(call.args.threshold))
               /\ Answer(has_guardians(Store, a)) = Returns(BoolValue(TRUE))

\* a list that is not in key order was stored as the second record of the store
C8_Witness ==
    \E a \in AccountHashes :
        /\ CalledOn(call, "initialize_guardians", a)
        /\ call.outcome = "Ok"
        /\ call.args.guardians = <<"K3", "K1">>
        /\ \A b \in AccountHashes : FlagSet(Store, b)

\* C9: is_guardian(A, K) never faults and returns true iff A has a stored
\* guardian list and K equals one of its elements.
C9_Membership ==
    /\ \A a \in AccountHashes, k \in PublicKeys :
           LET g == SlotOf(Store, guardians_key(a)) IN
           Answer(is_guardian(Store, a, k)) =
               Returns(BoolValue(g # None /\ g[1].ty = "List"
                                 /\ k \in {g[1].l[i] : i \in 1 .. Len(g[1].l)}))
    /\ \A a \in AccountHashes, k \in PublicKeys :
           (CalledOn(call, "is_guardian", a) /\ call.args.public_key = Some(k))
               => /\ call.outcome = "Ok"
                  /\ call.ret.b = (/\ first_init[a] # None
                                   /\ \E i \in 1 .. Len(first_init[a][1].guardians) :
                                          first_init[a][1].guardians[i] = k)

\* is_guardian answered true for a key that is not the first of the list
C9_Witness ==
    \E a \in AccountHashes, k \in PublicKeys :
        /\ CalledOn(call, "is_guardian", a)
        /\ call.args.public_key = Some(k)
        /\ call.ret = BoolValue(TRUE)
        /\ first_init[a] # None
        /\ first_init[a][1].guardians[1] # k

\* C10: while no initialize_guardians on A has succeeded, has_guardians(A)
\* returns false, is_guardian(A, K) returns false for every K, and
\* get_guardians(A) and get_threshold(A) fail with AccountNotFound.
C10_BeforeInitialization ==
    \A a \in AccountHashes :
        init_count[a] = 0 =>
            /\ Answer(has_guardians(Store, a)) = Returns(BoolValue(FALSE))
            /\ \A k \in PublicKeys : Answer(is_guardian(Store, a, k)) = Returns(BoolValue(FALSE))
            /\ Answer(get_guardians(Store, a)) = Fails("AccountNotFound")
            /\ Answer(get_threshold(Store, a)) = Fails("AccountNotFound")
            /\ \A op \in {"get_guardians", "get_threshold"} :
                   CalledOn(call, op, a) => call.outcome = "AccountNotFound"

\* get_guardians was refused on an account without a record while the other
\* account has one
C10_Witness ==
    \E a, b \in AccountHashes :
        /\ init_count[a] = 0 /\ init_count[b] = 1
        /\ CalledOn(call, "get_guardians", a)
        /\ call.outcome = "AccountNotFound"

\* the three fields of an account as they are stored
AccountView(st, a) ==
    [guardians   |-> SlotOf(st, guardians_key(a)),
     threshold   |-> SlotOf(st, threshold_key(a)),
     initialized |-> SlotOf(st, initialized_key(a))]

\* the store that holds the three fields of account a as st has them, in the
\* slots a lone initialize of a allocates, and nothing of any other account
AloneStore(st, a) ==
    IF initialized_key(a) \notin DOMAIN st.named_keys THEN EmptyStore
    ELSE [named_keys |-> (initialized_key(a) :> 1) @@ (guardians_key(a) :> 2)
                          @@ (threshold_key(a) :> 3),
          global_state |-> <<st.global_state[st.named_keys[initialized_key(a)]],
                             st.global_state[st.named_keys[guardians_key(a)]],
                             st.global_state[st.named_keys[threshold_key(a)]]>>]

\* the result of the call recorded in c, had it run in the store st
Rerun(st, c) ==
    LET a == c.args.account[1] IN
    CASE c.op = "initialize_guardians" ->
             initialize_guardians(st, a, c.args.guardians, c.args.threshold)
      [] c.op = "get_guardians" -> get_guardians(st, a)
      [] c.op = "get_threshold" -> get_threshold(st, a)
      [] c.op = "is_guardian" -> is_guardian(st, a, c.args.public_key[1])
      [] c.op = "has_guardians" -> has_guardians(st, a)

\* C11: a call on account B leaves the three fields of every other account A
\* unchanged, and the result of a call on A (its outcome, its value and the
\* fields of A afterwards) is the one the same call has in a store that holds
\* A's fields alone.
C11_AccountIsolation ==
    [][\A a \in AccountHashes :
          /\ (call'.args.account # None /\ call'.args.account # Some(a))
                 => AccountView(StoreNext, a) = AccountView(Store, a)
          /\ call'.args.account = Some(a)
                 => \E solo \in {AloneStore(Store, a)} :
                    \E alone \in {Rerun(solo, call')} :
                        /\ AccountView(solo, a) = AccountView(Store, a)
                        /\ call'.outcome = alone.outcome
                        /\ call'.ret = alone.ret
                        /\ AccountView(StoreNext, a)
                               = AccountView(Commit(solo, alone), a)]_vars

\* account B was initialized after A, with another record, and a query on A
\* still returns A's list
C11_Witness ==
    \E a, b \in AccountHashes :
        /\ a # b
        /\ FlagSet(Store, a) /\ FlagSet(Store, b)
        /\ Store.named_keys[initialized_key(a)] < Store.named_keys[initialized_key(b)]
        /\ first_init[a] # first_init[b]
        /\ CalledOn(call, "get_guardians", a)
        /\ call.ret = ListValue(first_init[a][1].guardians)

\* C12: an initialize_guardians call that fails leaves the persisted state as
\* it was before the call, every field of every account and the set of slots
\* included; the failing call has not even written anything the host would
\* have to discard.
C12_NoWriteOnFailure ==
    [][\A a \in AccountHashes :
          (CalledOn(call', "initialize_guardians", a) /\ call'.outcome # "Ok")
              => /\ StoreNext = Store
                 /\ DOMAIN named_keys' = DOMAIN named_keys
                 /\ Len(global_state') = Len(global_state)
                 /\ initialize_guardians(Store, a, call'.args.guardians,
                                         call'.args.threshold).st = Store]_vars

\* a call that got as far as the initialized flag was refused, and the store
\* still has the three slots of the one record and no other
C12_Witness ==
    \E a \in AccountHashes :
        /\ CalledOn(call, "initialize_guardians", a)
        /\ call.outcome = "AlreadyInitialized"
        /\ Len(global_state) = 3
        /\ DOMAIN named_keys = {guardians_key(a), threshold_key(a), initialized_key(a)}

\* the entry points that only read
ReadOnlyOps == {"get_guardians", "get_threshold", "is_guardian", "has_guardians", "call"}

\* C13: get_guardians, get_threshold, is_guardian, has_guardians and call
\* leave every persisted field unchanged and create no slot, whether they
\* return a value or fail with AccountNotFound.
C13_QueriesReadOnly ==
    [][call'.op \in ReadOnlyOps
          => /\ StoreNext = Store
             /\ DOMAIN named_keys' = DOMAIN named_keys
             /\ Len(global_state') = Len(global_state)
             /\ call'.op # "call" => Rerun(Store, call').st = Store]_vars

\* get_threshold was refused for an account without a record: the store still
\* holds the three slots of the other account and nothing else
C13_Witness ==
    \E a, b \in AccountHashes :
        /\ CalledOn(call, "get_threshold", a)
        /\ call.outcome = "AccountNotFound"
        /\ Len(global_state) = 3
        /\ DOMAIN named_keys = {guardians_key(b), threshold_key(b), initialized_key(b)}

\* arguments that pass the three argument checks
ValidArgs(g, t) == Len(g) >= 2 /\ 1 <= t /\ t <= Len(g) /\ ~HasRepeat(g)

\* C14: of two initialize_guardians calls with valid arguments (G1, T1) and
\* (G2, T2) that the host runs one after the other on an uninitialized
\* account, the first succeeds, the second fails with AlreadyInitialized, and
\* the stored list and threshold are both those of the first.
C14_SerializedInitializations ==
    [][\A a \in AccountHashes :
          ( /\ CalledOn(call', "initialize_guardians", a)
            /\ ValidArgs(call'.args.guardians, call'.args.threshold)
            /\ ~FlagSet(Store, a) )
              => /\ call'.outcome = "Ok"
                 /\ \A g2 \in GuardianLists, t2 \in Thresholds :
                        ValidArgs(g2, t2) =>
                            LET second == initialize_guardians(StoreNext, a, g2, t2)
                                final  == Commit(StoreNext, second)
                            IN  /\ second.outcome = "AlreadyInitialized"
                                /\ SlotOf(final, guardians_key(a))
                                       = Some(ListValue(call'.args.guardians))
                                /\ SlotOf(final, threshold_key(a))
                                       = Some(U32Value(call'.args.threshold))
                                /\ FlagSet(final, a)]_vars

\* the loser asked for the same two keys in the other order and another
\* threshold; the record is the winner's
C14_Witness ==
    \E a \in AccountHashes :
        /\ first_init[a] # None
        /\ CalledOn(call, "initialize_guardians", a)
        /\ call.outcome = "AlreadyInitialized"
        /\ Len(call.args.guardians) = 2
        /\ first_init[a][1].guardians = <<call.args.guardians[2], call.args.guardians[1]>>
        /\ call.args.threshold # first_init[a][1].threshold
        /\ SlotOf(Store, guardians_key(a)) = Some(ListValue(first_init[a][1].guardians))
        /\ SlotOf(Store, threshold_key(a)) = Some(U32Value(first_init[a][1].threshold))

\* which of the three fields of account a hold the values of a call (g, t)
Written(st, a, g, t) ==
    <<SlotOf(st, guardians_key(a)) = Some(ListValue(g)),
      SlotOf(st, threshold_key(a)) = Some(U32Value(t)),
      FlagSet(st, a)>>

\* C15: inside a successful initialize_guardians the list is written first,
\* the threshold second and the initialized flag last: at every point between
\* the storage calls of the call, a true flag implies that the list and the
\* threshold slots already hold the values of this call.
C15_FlagWrittenLast ==
    [][\A a \in AccountHashes :
          (CalledOn(call', "initialize_guardians", a) /\ call'.outcome = "Ok")
              => LET g     == call'.args.guardians
                     t     == call'.args.threshold
                     init  == get_or_create_uref(Store, initialized_key(a))
                     steps == store_record_steps(init.st, init.uref, a, g, t)
                 IN  /\ steps[Len(steps)] = StoreNext
                     /\ \A i \in 1 .. Len(steps) :
                            FlagSet(steps[i], a)
                                => Written(steps[i], a, g, t) = <<TRUE, TRUE, TRUE>>
                     /\ \E i, j \in 1 .. Len(steps) :
                            /\ i < j /\ j < Len(steps)
                            /\ Written(steps[i], a, g, t) = <<TRUE, FALSE, FALSE>>
                            /\ Written(steps[j], a, g, t) = <<TRUE, TRUE, FALSE>>
                     /\ Written(steps[Len(steps)], a, g, t) = <<TRUE, TRUE, TRUE>>]_vars

\* the second record of the store was just written: its slots were allocated
\* in the order flag, list, threshold, after the three of the first record
C15_Witness ==
    \E a \in AccountHashes :
        /\ CalledOn(call, "initialize_guardians", a)
        /\ call.outcome = "Ok"
        /\ Len(global_state) = 6
        /\ named_keys[initialized_key(a)] = 4
        /\ named_keys[guardians_key(a)] = 5
        /\ named_keys[threshold_key(a)] = 6
        /\ Written(Store, a, call.args.guardians, call.args.threshold) = <<TRUE, TRUE, TRUE>>

\* C16: at every call boundary (the registry idle after a sequence of
\* complete calls) and for every account, has_guardians returns true iff
\* get_guardians returns a value iff get_threshold returns a value.
C16_QueryFamiliesAgree ==
    call = NoCall =>
        \A a \in AccountHashes :
            \E has \in {has_guardians(Store, a)} :
            \E g \in {get_guardians(Store, a).outcome} :
            \E t \in {get_threshold(Store, a).outcome} :
                /\ has.outcome = "Ok"
                /\ has.ret.b <=> (g = "Ok")
                /\ has.ret.b <=> (t = "Ok")
                /\ (g = "Ok" /\ t = "Ok") \/ (g = "AccountNotFound" /\ t = "AccountNotFound")

\* between two calls: has_guardians answers false for an account whose getters
\* fail, and true for the other account, whose getters return values
C16_Witness ==
    /\ call = NoCall
    /\ \E a, b \in AccountHashes :
        /\ ~has_guardians(Store, b).ret.b
        /\ get_guardians(Store, b).outcome = "AccountNotFound"
        /\ get_threshold(Store, b).outcome = "AccountNotFound"
        /\ has_guardians(Store, a).ret.b
        /\ get_guardians(Store, a).outcome = "Ok"
        /\ get_threshold(Store, a).outcome = "Ok"

\* C17: the outcome of initialize_guardians and the store it leaves are those
\* of the same call made by any other caller; the outcome is the one the
\* arguments and the flag of the account prescribe, and a success leaves
\* exactly the arguments as the record of the account, whoever called.
C17_CallerIndependent ==
    [][\A a \in AccountHashes :
          CalledOn(call', "initialize_guardians", a)
              => LET g == call'.args.guardians
                     t == call'.args.threshold
                 IN  /\ \A c \in Callers :
                            LET other == initialize_guardians_by(c, Store, a, g, t) IN
                            /\ other.outcome = call'.outcome
                            /\ other.ret = call'.ret
                            /\ Commit(Store, other) = StoreNext
                     /\ call'.outcome = ExpectedOutcome(FlagSet(Store, a), g, t)
                     /\ IF call'.outcome = "Ok"
                        THEN Written(StoreNext, a, g, t) = <<TRUE, TRUE, TRUE>>
                        ELSE AccountView(StoreNext, a) = AccountView(Store, a)]_vars

\* the first record of the store has just been set up, and it is the store
\* that the same call made by the other account leaves
C17_Witness ==
    \E a \in AccountHashes, c \in Callers :
        /\ c # a
        /\ CalledOn(call, "initialize_guardians", a)
        /\ call.outcome = "Ok"
        /\ Len(global_state) = 3
        /\ Commit(EmptyStore,
                  initialize_guardians_by(c, EmptyStore, a, call.args.guardians,
                                          call.args.threshold)) = Store
        /\ Written(Store, a, call.args.guardians, call.args.threshold) = <<TRUE, TRUE, TRUE>>

\* every slot name of the registry
SlotNames ==
    UNION {{guardians_key(a), threshold_key(a), initialized_key(a)} : a \in AccountHashes}

\* C18: in every store the calls leave, get_or_create_uref returns the slot
\* already registered under the name and changes nothing; when none is
\* registered it allocates one new slot holding the empty value, registers it
\* under the name and changes nothing else; called again with the same name
\* it returns the same slot and allocates nothing.
C18_GetOrCreate ==
    call = NoCall =>
        \A key_name \in SlotNames :
            \E r1 \in {get_or_create_uref(Store, key_name)} :
            \E r2 \in {get_or_create_uref(r1.st, key_name)} :
            \E r3 \in {get_or_create_uref(r2.st, key_name)} :
                /\ key_name \in DOMAIN named_keys
                    => /\ r1.uref = named_keys[key_name]
                       /\ r1.st = Store
                /\ key_name \notin DOMAIN named_keys
                    => /\ r1.uref \notin DOMAIN global_state
                       /\ Len(r1.st.global_state) = Len(global_state) + 1
                       /\ r1.st.global_state[r1.uref] = UnitValue
                       /\ \A u \in DOMAIN global_state :
                              r1.st.global_state[u] = global_state[u]
                       /\ DOMAIN r1.st.named_keys = DOMAIN named_keys \cup {key_name}
                       /\ r1.st.named_keys[key_name] = r1.uref
                       /\ \A k \in DOMAIN named_keys : r1.st.named_keys[k] = named_keys[k]
                /\ r2.uref = r1.uref /\ r2.st = r1.st
                /\ r3.uref = r1.uref /\ r3.st = r1.st

\* an initialize has created the three slots of one account through
\* get_or_create_uref, and the names of the other account are not registered
C18_Witness ==
    /\ call = NoCall
    /\ \E a, b \in AccountHashes :
        /\ {guardians_key(a), threshold_key(a), initialized_key(a)} \subseteq DOMAIN named_keys
        /\ Cardinality({named_keys[guardians_key(a)], named_keys[threshold_key(a)],
                        named_keys[initialized_key(a)]}) = 3
        /\ initialized_key(b) \notin DOMAIN named_keys
        /\ get_or_create_uref(Store, initialized_key(b)).uref = Len(global_state) + 1
        /\ get_or_create_uref(Store, initialized_key(a)).uref = named_keys[initialized_key(a)]

====
